---- MODULE Spec2Model ----
(***************************************************************************)
(* Deal-lifecycle engine of src/server.py: deal keys, the history store,    *)
(* expiration inference, and the scan cycles (run_scraper / save_data)      *)
(* that load, update and rewrite the history and snapshot files; and the    *)
(* scan of one brand (scrape_brand) with the brand loop of run_scraper;     *)
(* and update_deal_history applied to one deal and an empty history, over   *)
(* texts that hold dates, day names and relative phrases.                   *)
(*                                                                         *)
(* Text is a sequence of one-character strings.  Time is an integer number  *)
(* of seconds since Thursday 1970-01-01 00:00:00 (datetime.now() read at    *)
(* second resolution); isoformat()/fromisoformat() are a lossless pair on   *)
(* such values, so a stored timestamp is the integer itself.  Dates are     *)
(* those of the years 1970..2037, which fit TLC's integers.                 *)
(***************************************************************************)
EXTENDS Integers, Sequences, FiniteSets, TLC

VARIABLES
    clock,        \* wall clock, seconds
    historyFile,  \* the entries last dumped to deal_history.json
    historyDoc,   \* what deal_history.json holds now: see Documents
    dataFile,     \* the snapshot last dumped to promo_data.json
    dataDoc,      \* what promo_data.json holds now: see Documents
    overlap,      \* per thread: another thread wrote the file it has open
    pc,           \* per thread: position inside run_scraper / save_data
    batch,        \* per thread: results, clearance_results, impact_deals
    hist,         \* per thread: the local `history` dict of save_data
    loaded,       \* per thread: the history as load_deal_history returned it
    fresh,        \* per thread: fresh_promos, fresh_clearance, fresh_impact
    chi,          \* per thread: critical_hit_index computed by save_data
    cycles,       \* number of cycles started so far
    freshness,    \* an entry, a now, and the metadata derived from them
    scan,         \* the brand loop of run_scraper: its locals
    probe         \* a deal, a now, and what update_deal_history makes of them

files == <<historyFile, historyDoc, dataFile, dataDoc>>

\* the scan cycles
cycle == <<clock, files, overlap, pc, batch, hist, loaded, fresh, chi, cycles>>

\* the functions applied on their own
aside == <<freshness, scan, probe>>

vars == <<cycle, aside>>

----------------------------------------------------------------------------
(* Bounds of the model *)

MaxTicks == 3       \* the clock advances at most this many times
MaxCycles == 2      \* at most this many cycles are started
MaxDeals == 2       \* most records one scan returns, over its three lists

TickSeconds == 12 * 3600   \* one clock advance

----------------------------------------------------------------------------
(* Program constants *)

DEAL_EXPIRE_HOURS == 24
DEAL_STALE_DAYS == 7
KEY_PROMO_CHARS == 100
PREVIEW_CHARS == 60
SECONDS_PER_HOUR == 3600
SECONDS_PER_DAY == 24 * SECONDS_PER_HOUR

\* Python's None (timestamps, years and indices of the model are >= 0)
None == -1

NoMatch == [ok |-> FALSE]

----------------------------------------------------------------------------
(* Text primitives: str.lower, str.strip, re.sub(r'\s+', ' ', .), slicing,  *)
(* and the `in` substring test.                                             *)

UpperLetters == <<"A","B","C","D","E","F","G","H","I","J","K","L","M",
                  "N","O","P","Q","R","S","T","U","V","W","X","Y","Z">>
LowerLetters == <<"a","b","c","d","e","f","g","h","i","j","k","l","m",
                  "n","o","p","q","r","s","t","u","v","w","x","y","z">>

Whitespace == {" ", "\t", "\n"}

LowerChar(c) ==
    IF \E i \in 1..26 : UpperLetters[i] = c
    THEN LowerLetters[CHOOSE i \in 1..26 : UpperLetters[i] = c]
    ELSE c

Lower(s) == [i \in 1..Len(s) |-> LowerChar(s[i])]

Strip(s) ==
    LET nonws == {i \in 1..Len(s) : s[i] \notin Whitespace}
    IN  IF nonws = {} THEN <<>>
        ELSE LET lo == CHOOSE i \in nonws : \A j \in nonws : i <= j
                 hi == CHOOSE i \in nonws : \A j \in nonws : i >= j
             IN  SubSeq(s, lo, hi)

RECURSIVE CollapseWs(_)
CollapseWs(s) ==
    IF s = <<>> THEN <<>>
    ELSE IF Head(s) \in Whitespace
         THEN LET run == CHOOSE n \in 1..Len(s) :
                            /\ \A j \in 1..n : s[j] \in Whitespace
                            /\ (n = Len(s) \/ s[n + 1] \notin Whitespace)
              IN  <<" ">> \o CollapseWs(SubSeq(s, run + 1, Len(s)))
         ELSE <<Head(s)>> \o CollapseWs(Tail(s))

Take(s, n) == SubSeq(s, 1, IF Len(s) < n THEN Len(s) ELSE n)

Contains(s, pat) ==
    \E i \in 1..(Len(s) - Len(pat) + 1) : SubSeq(s, i, i + Len(pat) - 1) = pat

At(s, i) == IF i \in 1..Len(s) THEN s[i] ELSE ""

Digits == <<"0","1","2","3","4","5","6","7","8","9">>

IsDigit(c) == \E i \in 1..10 : Digits[i] = c

DigitVal(c) == (CHOOSE i \in 1..10 : Digits[i] = c) - 1

RECURSIVE ToInt(_)
ToInt(ds) ==
    IF ds = <<>> THEN 0
    ELSE 10 * ToInt(SubSeq(ds, 1, Len(ds) - 1)) + DigitVal(ds[Len(ds)])

----------------------------------------------------------------------------
(* Calendar: datetime(year, month, day, 23, 59, 59), now.year, now.month,   *)
(* now.weekday(), .replace(hour=23, minute=59, second=59), timedelta(days). *)

IsLeap(y) == (y % 4 = 0 /\ y % 100 # 0) \/ y % 400 = 0

DaysInMonth(y, m) ==
    IF m = 2 THEN (IF IsLeap(y) THEN 29 ELSE 28)
    ELSE IF m \in {4, 6, 9, 11} THEN 30 ELSE 31

DaysInYear(y) == IF IsLeap(y) THEN 366 ELSE 365

\* days from 0001-01-01 to y-01-01 (proleptic Gregorian)
DaysBeforeYear(y) ==
    LET p == y - 1 IN p * 365 + (p \div 4) - (p \div 100) + (p \div 400)

RECURSIVE DaysBeforeMonth(_, _)
DaysBeforeMonth(y, m) ==
    IF m = 1 THEN 0 ELSE DaysBeforeMonth(y, m - 1) + DaysInMonth(y, m - 1)

ValidDate(y, m, d) ==
    /\ y \in 1..9999
    /\ m \in 1..12
    /\ d >= 1
    /\ d <= DaysInMonth(y, m)

\* the clock's day 0 is Thursday 1970-01-01
EpochDay == DaysBeforeYear(1970)

\* day number of y-m-d, counted from day 0
DayNumber(y, m, d) ==
    DaysBeforeYear(y) + DaysBeforeMonth(y, m) + (d - 1) - EpochDay

EndOfDay(day) == day * SECONDS_PER_DAY + (SECONDS_PER_DAY - 1)

DayOf(t) == t \div SECONDS_PER_DAY

\* day 0 is a Thursday, and Python's weekday() has Monday = 0
Weekday(t) == (DayOf(t) + 3) % 7

YearOf(t) ==
    LET dn == DayOf(t) + EpochDay
    IN  CHOOSE y \in 1970..2037 :
            DaysBeforeYear(y) <= dn /\ dn < DaysBeforeYear(y + 1)

MonthOf(t) ==
    LET y == YearOf(t)
        doy == DayOf(t) + EpochDay - DaysBeforeYear(y)
    IN  CHOOSE m \in 1..12 :
            DaysBeforeMonth(y, m) <= doy /\ doy < DaysBeforeMonth(y, m) + DaysInMonth(y, m)

----------------------------------------------------------------------------
(* The records a cycle can scrape                                           *)

\* The texts of the model: brand names and promo texts of the records, the
\* words parse_expiration_date looks for, the tokens, zone texts and error
\* messages of the pages, and the pieces of the texts scrape_brand builds
Text ==
    [ping             |-> <<"P","i","n","g">>,
     ecco             |-> <<"E","C","C","O">>,
     sale_today       |-> <<"S","a","l","e"," ","e","n","d","s"," ","t","o",
                         "d","a","y">>,
     sale_today_wide  |-> <<"S","a","l","e"," ","e","n","d","s"," "," ","t",
                         "o","d","a","y">>,
     ten_off          |-> <<"1","0","%"," ","o","f","f">>,
     golf             |-> <<"G","O","L","F">>,
     end              |-> <<"e","n","d">>,
     ends             |-> <<"e","n","d","s">>,
     through          |-> <<"t","h","r","o","u","g","h">>,
     until            |-> <<"u","n","t","i","l">>,
     expire           |-> <<"e","x","p","i","r","e">>,
     expires          |-> <<"e","x","p","i","r","e","s">>,
     thru             |-> <<"t","h","r","u">>,
     today            |-> <<"t","o","d","a","y">>,
     tomorrow         |-> <<"t","o","m","o","r","r","o","w">>,
     only             |-> <<"o","n","l","y">>,
     this             |-> <<"t","h","i","s">>,
     weekend          |-> <<"w","e","e","k","e","n","d">>,
     limited          |-> <<"l","i","m","i","t","e","d">>,
     time             |-> <<"t","i","m","e">>,
     sp               |-> <<" ">>,
     SAVE20           |-> <<"S","A","V","E","2","0">>,
     FAFAF9           |-> <<"F","A","F","A","F","9">>,
     DEFAULT          |-> <<"D","E","F","A","U","L","T">>,
     SALE             |-> <<"S","A","L","E">>,
     WELCOMEBACK2024X |-> <<"W","E","L","C","O","M","E","B","A","C","K","2",
                         "0","2","4","X">>,
     SPRING_SALE      |-> <<"S","P","R","I","N","G"," ","S","A","L","E","!">>,
     enter_code       |-> <<"E","n","t","e","r"," ","c","o","d","e"," ","F",
                         "A","F","A","F","9"," ","o","r"," ","c","o","d","e",
                         " ","S","A","V","E","2","0"," ","f","o","r"," ","2",
                         "0","%"," ","o","f","f">>,
     sitewide         |-> <<"S","i","t","e","w","i","d","e"," ","-"," ","l",
                         "i","m","i","t","e","d"," ","t","i","m","e">>,
     use_code_save20  |-> <<"U","s","e"," ","c","o","d","e"," ","S","A","V",
                         "E","2","0"," ","f","o","r"," ","2","0","%"," ","o",
                         "f","f">>,
     join             |-> <<"J","o","i","n"," ","o","u","r"," ","l","i","s",
                         "t"," ","f","o","r"," ","1","0","%"," ","o","f","f",
                         " ","y","o","u","r"," ","f","i","r","s","t"," ","o",
                         "r","d","e","r">>,
     first_order      |-> <<"1","0","%"," ","o","f","f"," ","y","o","u","r",
                         " ","f","i","r","s","t"," ","o","r","d","e","r">>,
     final_sale       |-> <<"F","i","n","a","l"," ","s","a","l","e"," ","i",
                         "t","e","m","s">>,
     twenty           |-> <<"2","0">>,
     timeout          |-> <<"t","i","m","e","o","u","t">>,
     not_found        |-> <<"4","0","4"," ","C","l","i","e","n","t"," ","E",
                         "r","r","o","r",":"," ","N","o","t"," ","F","o","u",
                         "n","d"," ","f","o","r"," ","u","r","l",":"," ","h",
                         "t","t","p","s",":","/","/","p","i","n","g",".","c",
                         "o","m","/">>,
     recursion        |-> <<"m","a","x","i","m","u","m"," ","r","e","c","u",
                         "r","s","i","o","n"," ","d","e","p","t","h"," ","e",
                         "x","c","e","e","d","e","d"," ","w","h","i","l","e",
                         " ","c","a","l","l","i","n","g"," ","a"," ","P","y",
                         "t","h","o","n"," ","o","b","j","e","c","t">>,
     use_code         |-> <<"U","s","e"," ","c","o","d","e"," ">>,
     sep_for          |-> <<" ","f","o","r"," ">>,
     pct_off          |-> <<"%"," ","o","f","f">>,
     for_discount     |-> <<" ","f","o","r"," ","d","i","s","c","o","u","n",
                         "t">>,
     for_first_order  |-> <<" ","f","o","r"," ","f","i","r","s","t"," ","o",
                         "r","d","e","r"," ","d","i","s","c","o","u","n","t">>,
     ellipsis         |-> <<".",".",".">>]

Record(brand, promo, code, email_offer) ==
    [brand |-> brand, promo |-> promo, code |-> code, email_offer |-> email_offer]

\* what scrape_brand can return, without an error, for the two brands
ScrapePool ==
    {Record(Text.ping, Text.sale_today, Text.golf, Text.ten_off),
     Record(Text.ecco, <<>>, <<>>, Text.ten_off)}

\* what scrape_sale_page can return
ClearancePool ==
    {Record(Text.ping, Text.sale_today, <<>>, <<>>)}

\* what ImpactAPI.get_all_deals can return: the descriptions of two ads of
\* one campaign, as they come (one with two spaces in it)
ImpactPool ==
    {Record(Text.ping, Text.sale_today_wide, <<>>, <<>>),
     Record(Text.ping, Text.ten_off, <<>>, <<>>)}

\* BRANDS, by name
BRANDS == <<Text.ping, Text.ecco>>

BrandIndex(brand) == CHOOSE i \in 1..Len(BRANDS) : BRANDS[i] = brand

\* run_scraper and scan_sale_pages go through BRANDS in order and keep at
\* most one record per brand
InBrandOrder(list) ==
    \A i, j \in 1..Len(list) :
        i < j => BrandIndex(list[i].brand) < BrandIndex(list[j].brand)

\* the lists of at most n records of S
ListsOf(S, n) == UNION {[1..m -> S] : m \in 0..n}

\* the outcomes of one scan; without results save_data is not called and
\* the other two lists are dropped
Batches ==
    {b \in [results   : ListsOf(ScrapePool, MaxDeals),
            clearance : ListsOf(ClearancePool, MaxDeals),
            impact    : ListsOf(ImpactPool, MaxDeals)] :
        /\ Len(b.results) + Len(b.clearance) + Len(b.impact) <= MaxDeals
        /\ InBrandOrder(b.results)
        /\ InBrandOrder(b.clearance)
        /\ (b.results = <<>> => b.clearance = <<>> /\ b.impact = <<>>)}

NoBatch == [results |-> <<>>, clearance |-> <<>>, impact |-> <<>>]

AllRecords == ScrapePool \cup ClearancePool \cup ImpactPool

----------------------------------------------------------------------------
(* parse_expiration_date: the two date regexes, then the substring rules.   *)

\* (?:ends?|through|until|expires?|thru)
DateKeywords == {Text.end, Text.ends, Text.through, Text.until, Text.expire, Text.expires, Text.thru}

day_names == << <<"m","o","n","d","a","y">>, <<"t","u","e","s","d","a","y">>,
                <<"w","e","d","n","e","s","d","a","y">>, <<"t","h","u","r","s","d","a","y">>,
                <<"f","r","i","d","a","y">>, <<"s","a","t","u","r","d","a","y">>,
                <<"s","u","n","d","a","y">> >>

IsSep(c) == c \in {"/", "-"}

\* The regex anchored at position i of text t, group by group; each step
\* is NoMatch when the regex does not match there.
\* (?:[/\-](\d{2,4}))? after the day, which ends before position q
YearLen(t, q) ==
    IF ~(IsSep(At(t, q)) /\ IsDigit(At(t, q + 1)) /\ IsDigit(At(t, q + 2))) THEN 0
    ELSE IF ~IsDigit(At(t, q + 3)) THEN 2
    ELSE IF ~IsDigit(At(t, q + 4)) THEN 3 ELSE 4

\* the captured groups: month at k, day at p, year after q
DateGroups(t, k, mlen, p, dlen, q, ylen) ==
    [ok    |-> TRUE,
     month |-> ToInt(SubSeq(t, k, k + mlen - 1)),
     day   |-> ToInt(SubSeq(t, p, p + dlen - 1)),
     year  |-> IF ylen > 0 THEN ToInt(SubSeq(t, q + 1, q + ylen)) ELSE None]

\* (\d{1,2}) at p, then the optional year
MatchDay(t, k, mlen, p, dlen, withYear) ==
    IF dlen = 0 THEN NoMatch
    ELSE DateGroups(t, k, mlen, p, dlen, p + dlen,
                    IF withYear THEN YearLen(t, p + dlen) ELSE 0)

DayLen(t, p) ==
    IF ~IsDigit(At(t, p)) THEN 0 ELSE IF IsDigit(At(t, p + 1)) THEN 2 ELSE 1

\* (\d{1,2})[/\-] at k
MonthLen(t, k) ==
    IF IsDigit(At(t, k)) /\ IsDigit(At(t, k + 1)) /\ IsSep(At(t, k + 2)) THEN 2
    ELSE IF IsDigit(At(t, k)) /\ IsSep(At(t, k + 1)) THEN 1 ELSE 0

MatchMonth(t, k, mlen, withYear) ==
    IF mlen = 0 THEN NoMatch
    ELSE MatchDay(t, k, mlen, k + mlen + 1, DayLen(t, k + mlen + 1), withYear)

\* \s+ from j on: the first position that holds no whitespace
SkipWs(t, j) ==
    CHOOSE n \in j..(Len(t) + 1) :
        /\ \A x \in j..(n - 1) : t[x] \in Whitespace
        /\ At(t, n) \notin Whitespace

MatchAfterWs(t, k, withYear) == MatchMonth(t, k, MonthLen(t, k), withYear)

\* (?:ends?|through|until|expires?|thru)\s+ at i, then the groups
DateMatchAt(t, i, withYear) ==
    LET kws == {kw \in DateKeywords :
                    /\ i + Len(kw) - 1 <= Len(t)
                    /\ SubSeq(t, i, i + Len(kw) - 1) = kw
                    /\ At(t, i + Len(kw)) \in Whitespace}
    IN  IF kws = {} THEN NoMatch
        ELSE MatchAfterWs(t, SkipWs(t, i + Len(CHOOSE kw \in kws : TRUE)), withYear)

\* re.search: the match at the leftmost position where the regex matches
DateSearch(t, withYear) ==
    LET hits == {i \in 1..Len(t) : DateMatchAt(t, i, withYear).ok}
    IN  IF hits = {} THEN NoMatch
        ELSE DateMatchAt(t, CHOOSE i \in hits : \A j \in hits : i <= j, withYear)

\* a date that does not exist is taken as today
DateFromMatch_InvalidIsToday(m, now) ==
    IF ~ValidDate(YearOf(now), m.month, m.day) THEN EndOfDay(DayOf(now))
    ELSE EndOfDay(DayNumber(YearOf(now), m.month, m.day))

\* the body of the try block for one match; None stands for the exception
\* that the bare except swallows
DateFromMatch(m, now) ==
    LET year == IF m.year = None THEN YearOf(now)
                ELSE IF m.year < 100 THEN m.year + 2000 ELSE m.year
    IN  IF ~ValidDate(year, m.month, m.day) THEN None
        ELSE LET exp_date == EndOfDay(DayNumber(year, m.month, m.day))
             IN  IF exp_date < now /\ m.month < MonthOf(now)
                 THEN (IF ValidDate(year + 1, m.month, m.day)
                       THEN EndOfDay(DayNumber(year + 1, m.month, m.day))
                       ELSE None)
                 ELSE exp_date

\* the first i (0-based, as enumerate gives it) whose day name is mentioned
\* after ends / through / until, or None
DayRule(t) ==
    LET hit(i) == \/ Contains(t, Text.ends \o Text.sp \o day_names[i + 1])
                  \/ Contains(t, Text.through \o Text.sp \o day_names[i + 1])
                  \/ Contains(t, Text.until \o Text.sp \o day_names[i + 1])
        hits == {i \in 0..6 : hit(i)}
    IN  IF hits = {} THEN None ELSE CHOOSE i \in hits : \A j \in hits : i <= j

\* everything parse_expiration_date derives from the text alone
TextCues(promo_text) ==
    LET text == Lower(promo_text)
    IN  [date1    |-> DateSearch(text, TRUE),
         date2    |-> DateSearch(text, FALSE),
         dayname  |-> DayRule(text),
         today    |-> Contains(text, Text.today \o Text.sp \o Text.only)
                        \/ Contains(text, Text.ends \o Text.sp \o Text.today),
         tomorrow |-> Contains(text, Text.ends \o Text.sp \o Text.tomorrow)
                        \/ Contains(text, Text.tomorrow \o Text.sp \o Text.only),
         weekend  |-> Contains(text, Text.this \o Text.sp \o Text.weekend)
                        \/ Contains(text, Text.weekend \o Text.sp \o Text.only),
         limited  |-> Contains(text, Text.limited \o Text.sp \o Text.time)]

\* str(n) of a number
RECURSIVE DigitsOf(_)
DigitsOf(n) ==
    IF n < 10 THEN <<Digits[n + 1]>>
    ELSE DigitsOf(n \div 10) \o <<Digits[(n % 10) + 1]>>

\* What the text of a promo can say about its end: a date after a keyword,
\* by its numbers (any month and day, with or without a year, alone or
\* followed by ' - today only'); a weekday after a keyword, by its index in
\* day_names; or a text as it stands.
ProbeCues ==
    {[kind |-> "date", kw |-> kw, month |-> m, day |-> d, year |-> None, tail |-> tail] :
        kw \in {Text.ends, Text.thru},
        m \in {0, 1, 2, 11, 12, 13},
        d \in {1, 6, 29, 30, 31, 45},
        tail \in {<<>>, <<" ", "-", " ">> \o Text.today \o Text.sp \o Text.only}}
    \cup
    {[kind |-> "date", kw |-> Text.expires, month |-> m, day |-> 6, year |-> y,
      tail |-> <<>>] :
        m \in {1, 12}, y \in {20, 25, 2030}}
    \cup
    {[kind |-> "weekday", kw |-> kw, weekday |-> i] :
        kw \in {Text.ends, Text.through, Text.until}, i \in 0..6}
    \cup
    {[kind |-> "text", text |-> text] :
        text \in {<<>>, Text.sale_today, Text.sale_today_wide, Text.ten_off,
                  Text.golf \o <<":">> \o Text.ten_off, Text.sitewide,
                  Text.ends \o Text.sp \o Text.tomorrow,
                  Text.this \o Text.sp \o Text.weekend}}

\* the promo text that says it
ProbeText(c) ==
    IF c.kind = "text" THEN c.text
    ELSE Take(Text.sale_today, 5) \o c.kw \o Text.sp \o
         (IF c.kind = "weekday" THEN day_names[c.weekday + 1]
          ELSE DigitsOf(c.month) \o <<"/">> \o DigitsOf(c.day)
               \o (IF c.year = None THEN <<>> ELSE <<"/">> \o DigitsOf(c.year))
               \o c.tail)

\* the deals with these texts: of a brand of BRANDS, or of an Impact
\* campaign whose name holds a colon
ProbeDeals ==
    {Record(brand, ProbeText(c), <<>>, <<>>) :
        brand \in {Text.ping, Text.ping \o <<":">> \o Text.golf}, c \in ProbeCues}

\* TextCues of every text of the model, computed once
CuesOf ==
    [txt \in {r.promo : r \in AllRecords \cup ProbeDeals} |-> TextCues(txt)]

\* a date that is past moves to the next year whatever its month
DateOfCue_RollsWhenPast(m, now) ==
    IF ~m.ok \/ m.year # None \/ ~ValidDate(YearOf(now), m.month, m.day) THEN None
    ELSE IF EndOfDay(DayNumber(YearOf(now), m.month, m.day)) < now
    THEN EndOfDay(DayNumber(YearOf(now) + 1, m.month, m.day))
    ELSE EndOfDay(DayNumber(YearOf(now), m.month, m.day))

\* the date of a regex match, or None
DateOfCue(m, now) == IF m.ok THEN DateFromMatch(m, now) ELSE None

\* the weekday of today counts as its next occurrence
KeywordRules_TodayCounts(c, now) ==
    IF c.dayname # None
    THEN EndOfDay(DayOf(now) + (((c.dayname - Weekday(now)) + 7) % 7))
    ELSE IF c.today THEN EndOfDay(DayOf(now))
    ELSE IF c.tomorrow THEN EndOfDay(DayOf(now) + 1)
    ELSE IF c.weekend THEN EndOfDay(DayOf(now) + (((6 - Weekday(now)) + 7) % 7))
    ELSE IF c.limited THEN EndOfDay(DayOf(now) + 3)
    ELSE None

\* lines 113-144: the rules after the two regexes
KeywordRules(c, now) ==
    IF c.dayname # None THEN
        LET diff == c.dayname - Weekday(now)
            days_ahead == IF diff <= 0 THEN diff + 7 ELSE diff
        IN  EndOfDay(DayOf(now) + days_ahead)
    ELSE IF c.today THEN EndOfDay(DayOf(now))
    ELSE IF c.tomorrow THEN EndOfDay(DayOf(now) + 1)
    ELSE IF c.weekend THEN
        LET d == 6 - Weekday(now)
            days_until_sunday == IF d < 0 THEN d + 7 ELSE d
        IN  EndOfDay(DayOf(now) + days_until_sunday)
    ELSE IF c.limited THEN EndOfDay(DayOf(now) + 3)
    ELSE None

\* lines 93-144: the first regex that gives a date, else the keyword rules
FirstRule(c, d1, d2, now) ==
    IF d1 # None THEN d1 ELSE IF d2 # None THEN d2 ELSE KeywordRules(c, now)

ExpirationFromCues(c, now) ==
    FirstRule(c, DateOfCue(c.date1, now), DateOfCue(c.date2, now), now)

parse_expiration_date(promo_text, now) ==
    IF promo_text = <<>> THEN None
    ELSE ExpirationFromCues(CuesOf[promo_text], now)

----------------------------------------------------------------------------
(* Deal identity and the history store                                      *)

\* a record's "promo" (or "offer"); no record the cycles build carries an
\* "offer", and a missing or None promo is the empty text
PromoText(deal) == deal.promo

\* the key is the brand alone
get_deal_key_BrandOnly(deal) == Strip(Lower(deal.brand)) \o <<":">>

get_deal_key(deal) ==
    LET brand == Strip(Lower(deal.brand))
        promo_normalized == CollapseWs(Strip(Lower(PromoText(deal))))
    IN  brand \o <<":">> \o Take(promo_normalized, KEY_PROMO_CHARS)

\* get_deal_key of every record of the model, computed once
KeyOf == [r \in AllRecords \cup ProbeDeals |-> get_deal_key(r)]

\* the update of an existing entry stamps first_seen instead of last_seen
UpsertEntry_StampsFirstSeen(history, key, deal, now) ==
    IF key \in DOMAIN history
    THEN [history[key] EXCEPT !.first_seen = now, !.times_seen = @ + 1]
    ELSE [first_seen    |-> now,
          last_seen     |-> now,
          times_seen    |-> 1,
          expires       |-> None,
          brand         |-> deal.brand,
          promo_preview |-> Take(PromoText(deal), PREVIEW_CHARS)]

\* the update of an existing entry forgets to count the sighting
UpsertEntry_NoCount(history, key, deal, now) ==
    IF key \in DOMAIN history
    THEN [history[key] EXCEPT !.last_seen = now]
    ELSE [first_seen    |-> now,
          last_seen     |-> now,
          times_seen    |-> 1,
          expires       |-> None,
          brand         |-> deal.brand,
          promo_preview |-> Take(PromoText(deal), PREVIEW_CHARS)]

\* a new entry starts its count at 0
UpsertEntry_NewFromZero(history, key, deal, now) ==
    IF key \in DOMAIN history
    THEN [history[key] EXCEPT !.last_seen = now, !.times_seen = @ + 1]
    ELSE [first_seen    |-> now,
          last_seen     |-> now,
          times_seen    |-> 0,
          expires       |-> None,
          brand         |-> deal.brand,
          promo_preview |-> Take(PromoText(deal), PREVIEW_CHARS)]

\* lines 166-180: the entry under `key` after the upsert, before the
\* expiration is looked at (a new entry has no "expires" yet)
UpsertEntry(history, key, deal, now) ==
    IF key \in DOMAIN history
    THEN [history[key] EXCEPT !.last_seen = now, !.times_seen = @ + 1]
    ELSE [first_seen    |-> now,
          last_seen     |-> now,
          times_seen    |-> 1,
          expires       |-> None,
          brand         |-> deal.brand,
          promo_preview |-> Take(PromoText(deal), PREVIEW_CHARS)]

\* the inference runs on every upsert
NeedsInference_Always(entry) == TRUE

\* line 183: the guard of the inference
NeedsInference(entry) == entry.expires = None

\* lines 182-184
InferExpiration(entry, promo_text, now) ==
    IF NeedsInference(entry)
    THEN [entry EXCEPT !.expires = parse_expiration_date(promo_text, now)]
    ELSE entry

\* a deal is expired from the second of its expiry on
IsExpired_AtExpiry(expires, now) == expires # None /\ now >= expires

\* lines 190-198
IsExpired(expires, now) == expires # None /\ now > expires

\* a deal is stale from its seventh day on
DealWithMeta_StaleFromSevenDays(deal, entry, now) ==
    [brand       |-> deal.brand,
     promo       |-> deal.promo,
     code        |-> deal.code,
     email_offer |-> deal.email_offer,
     first_seen  |-> entry.first_seen,
     last_seen   |-> entry.last_seen,
     times_seen  |-> entry.times_seen,
     is_new      |-> (now - entry.first_seen) < 24 * SECONDS_PER_HOUR,
     is_stale    |-> (now - entry.first_seen) >= DEAL_STALE_DAYS * SECONDS_PER_DAY,
     is_expired  |-> IsExpired(entry.expires, now),
     expires     |-> entry.expires]

\* lines 186-208: the deal with its freshness metadata
DealWithMeta(deal, entry, now) ==
    [brand       |-> deal.brand,
     promo       |-> deal.promo,
     code        |-> deal.code,
     email_offer |-> deal.email_offer,
     first_seen  |-> entry.first_seen,
     last_seen   |-> entry.last_seen,
     times_seen  |-> entry.times_seen,
     is_new      |-> (now - entry.first_seen) < 24 * SECONDS_PER_HOUR,
     is_stale    |-> (now - entry.first_seen) > DEAL_STALE_DAYS * SECONDS_PER_DAY,
     is_expired  |-> IsExpired(entry.expires, now),
     expires     |-> entry.expires]

\* the expired deals are kept
Emitted_KeepsExpired(meta) == TRUE

\* lines 210-212: whether the deal goes into fresh_deals
Emitted(meta) == ~meta.is_expired

\* the deal is emitted and its entry is not stored
RecordDeal_EntryNotStored(st, key, entry, meta) ==
    [history     |-> st.history,
     fresh_deals |-> IF Emitted(meta) THEN Append(st.fresh_deals, meta)
                     ELSE st.fresh_deals,
     seen_keys   |-> st.seen_keys \cup {key}]

\* lines 162-212 for one deal, given its key, the entry the upsert and the
\* inference leave under it, and the deal with its metadata
RecordDeal(st, key, entry, meta) ==
    [history     |-> [k \in DOMAIN st.history \cup {key} |->
                          IF k = key THEN entry ELSE st.history[k]],
     fresh_deals |-> IF Emitted(meta) THEN Append(st.fresh_deals, meta)
                     ELSE st.fresh_deals,
     seen_keys   |-> st.seen_keys \cup {key}]

\* lines 186-212, given the entry
EmitDeal(st, key, entry, deal, now) ==
    RecordDeal(st, key, entry, DealWithMeta(deal, entry, now))

\* lines 162-212, given the key
UpsertDeal(st, key, deal, now) ==
    EmitDeal(st, key,
             InferExpiration(UpsertEntry(st.history, key, deal, now), PromoText(deal), now),
             deal, now)

\* lines 160-212 for one deal: st is [history, fresh_deals, seen_keys]
ProcessDeal(st, deal, now) == UpsertDeal(st, KeyOf[deal], deal, now)

RECURSIVE ProcessDeals(_, _, _)
ProcessDeals(st, deals, now) ==
    IF deals = <<>> THEN st
    ELSE ProcessDeals(ProcessDeal(st, Head(deals), now), Tail(deals), now)

\* the cleanup also removes the entries whose expiry has passed
ExpiredKeys_DropsExpired(history, seen_keys, now) ==
    {key \in DOMAIN history :
        \/ /\ key \notin seen_keys
           /\ (now - history[key].last_seen) > DEAL_EXPIRE_HOURS * SECONDS_PER_HOUR
        \/ IsExpired(history[key].expires, now)}

\* lines 214-221: the keys the cleanup removes
ExpiredKeys(history, seen_keys, now) ==
    {key \in DOMAIN history :
        /\ key \notin seen_keys
        /\ (now - history[key].last_seen) > DEAL_EXPIRE_HOURS * SECONDS_PER_HOUR}

\* lines 223-229: the history without the expired keys, and the fresh deals
RemoveKeys(st, expired_keys) ==
    [history     |-> [k \in DOMAIN st.history \ expired_keys |-> st.history[k]],
     fresh_deals |-> st.fresh_deals]

\* lines 214-229, after the loop over the deals
Cleanup(st, now) == RemoveKeys(st, ExpiredKeys(st.history, st.seen_keys, now))

\* update_deal_history(deals, history), with the datetime.now() it reads
update_deal_history(deals, history, now) ==
    Cleanup(ProcessDeals([history |-> history, fresh_deals |-> <<>>, seen_keys |-> {}],
                         deals, now),
            now)

----------------------------------------------------------------------------
(* scrape_brand and the brand loop of run_scraper.  A page is given by what *)
(* the selectors and regexes of scrape_brand find in it: the texts of its   *)
(* zones that pass matches_promo and is_junk_text, each with its            *)
(* score_promo_text and with the tokens the four patterns of extract_code   *)
(* capture in it (in the order re.findall returns them), the tokens the     *)
(* patterns of extract_popup_codes_from_scripts capture in its scripts, and *)
(* the values of its data attributes.  Of the record of a brand the fields  *)
(* brand, promo, code, email_offer and error are kept; <<>> is None.        *)

\* extract_code line 901
CodeBlacklist ==
    {<<"D","E","F","A","U","L","T">>, <<"T","R","U","E">>,
     <<"F","A","L","S","E">>, <<"N","U","L","L">>,
     <<"U","N","D","E","F","I","N","E","D">>,
     <<"F","U","N","C","T","I","O","N">>, <<"R","E","T","U","R","N">>,
     <<"C","O","N","S","T">>, <<"V","A","R">>, <<"H","T","T","P">>,
     <<"H","T","T","P","S">>, <<"H","T","M","L">>, <<"C","S","S">>}

\* extract_popup_codes_from_scripts lines 964-970
ScriptBlacklist ==
    {<<"H","T","T","P">>, <<"H","T","T","P","S">>, <<"H","T","M","L">>,
     <<"C","S","S">>, <<"U","S","D">>, <<"O","F","F">>, <<"N","E","W">>,
     <<"S","A","L","E">>, <<"S","H","O","P">>, <<"F","R","E","E">>,
     <<"B","O","G","O">>, <<"S","I","Z","E">>, <<"V","I","E","W">>,
     <<"I","T","E","M">>, <<"I","T","E","M","S">>, <<"C","A","R","T">>,
     <<"H","E","R","E">>, <<"W","I","T","H">>, <<"Y","O","U","R">>,
     <<"T","H","I","S">>, <<"T","H","A","T">>, <<"M","O","R","E">>,
     <<"L","E","S","S">>, <<"O","N","L","Y">>, <<"J","U","S","T">>,
     <<"B","E","S","T">>, <<"G","I","F","T">>, <<"N","O","N","E">>,
     <<"T","R","U","E">>, <<"F","A","L","S","E">>, <<"N","U","L","L">>,
     <<"U","N","D","E","F","I","N","E","D">>,
     <<"F","U","N","C","T","I","O","N">>, <<"R","E","T","U","R","N">>,
     <<"C","O","N","S","T">>, <<"V","A","R">>, <<"L","E","T">>,
     <<"C","L","A","S","S">>, <<"S","C","R","I","P","T">>,
     <<"T","Y","P","E">>, <<"T","E","X","T">>, <<"A","U","T","O">>,
     <<"B","L","O","C","K">>, <<"F","L","E","X">>, <<"G","R","I","D">>,
     <<"F","I","X","E","D">>, <<"S","T","A","T","I","C">>}

\* scrape_brand line 1393
CopyBlacklist ==
    {<<"H","T","T","P">>, <<"H","T","T","P","S">>, <<"U","S","D">>,
     <<"O","F","F">>, <<"N","E","W">>, <<"S","A","L","E">>,
     <<"S","H","O","P">>, <<"F","R","E","E">>}

HexChars == {"A", "B", "C", "D", "E", "F",
             "0", "1", "2", "3", "4", "5", "6", "7", "8", "9"}

\* re.match(r'^[...]+$', code) for the characters of a class
AllIn(code, chars) == code # <<>> /\ \A i \in 1..Len(code) : code[i] \in chars

\* re.search(r'[...]', code) for the characters of a class
SomeIn(code, chars) == \E i \in 1..Len(code) : code[i] \in chars

\* extract_code lines 908-917: the guards on a captured token
CodeGuards(code) ==
    /\ code \notin CodeBlacklist
    /\ ~(Len(code) < 4 \/ Len(code) > 15)
    /\ ~(Len(code) = 6 /\ AllIn(code, HexChars))

\* extract_popup_codes_from_scripts lines 991-996: a token from a script
ScriptGuards(code) ==
    /\ code \notin ScriptBlacklist /\ Len(code) >= 4 /\ Len(code) <= 20
    /\ SomeIn(code, {UpperLetters[i] : i \in 1..26})
    /\ (SomeIn(code, {Digits[i] : i \in 1..10}) \/ Len(code) >= 6)

\* extract_popup_codes_from_scripts lines 999-1007: a data-coupon or
\* data-code value
AttrGuards(code) ==
    code # <<>> /\ code \notin ScriptBlacklist /\ Len(code) >= 4

\* scrape_brand lines 1410-1412: the value of a copy button
CopyGuards(code) ==
    /\ code # <<>> /\ Len(code) >= 4 /\ Len(code) <= 20
    /\ code \notin CopyBlacklist
    /\ AllIn(code, {UpperLetters[i] : i \in 1..26} \cup {Digits[i] : i \in 1..10})
    /\ SomeIn(code, {UpperLetters[i] : i \in 1..26})

\* the first element of a list that passes, <<>> (None) when none does;
\* passes[i] tells whether element i does
First(list, passes) ==
    IF \E i \in 1..Len(list) : passes[i]
    THEN list[CHOOSE i \in 1..Len(list) :
                 passes[i] /\ \A j \in 1..(i - 1) : ~passes[j]]
    ELSE <<>>

\* extract_code on a text that has these captures
extract_code(mentions) ==
    First(mentions, [i \in 1..Len(mentions) |-> CodeGuards(mentions[i])])

\* clean_promo_text: the whitespace is normalized and ' .-|' (and the
\* bullet, which no text of the model holds) stripped from the ends; the
\* patterns of lines 851-862 (boilerplate at the ends, blanks before and
\* repeated punctuation) match nothing in the texts of the model
clean_promo_text(text) ==
    LET s == CollapseWs(Strip(text))
        keep == {i \in 1..Len(s) : s[i] \notin {" ", ".", "-", "|"}}
    IN  IF keep = {} THEN <<>>
        ELSE SubSeq(s, CHOOSE i \in keep : \A j \in keep : i <= j,
                       CHOOSE i \in keep : \A j \in keep : i >= j)

clean_text(text, max_len) ==
    IF Len(clean_promo_text(text)) > max_len
    THEN Take(clean_promo_text(text), max_len) \o Text.ellipsis
    ELSE clean_promo_text(text)

\* The zones of the pages.  An announcement or banner zone: its text, its
\* score_promo_text and the captures of extract_code in it.  A popup zone:
\* its text and the captures of extract_code and of r'(\d+)%' in it.  A
\* newsletter zone with both cues: its text and the captures of
\* extract_code and of r'(\d+%\s*off[^.!]*)' in it.
Zone ==
    [sitewide   |-> [text |-> Text.sitewide, score |-> 10, mentions |-> <<>>],
     final_sale |-> [text |-> Text.final_sale, score |-> 20, mentions |-> <<>>],
     use_code   |-> [text |-> Text.use_code_save20, score |-> 85,
                     mentions |-> <<Text.SAVE20, Text.SAVE20, Text.SAVE20>>],
     enter_code |-> [text |-> Text.enter_code, pct |-> Text.twenty,
                     mentions |-> <<Text.FAFAF9, Text.SAVE20, Text.FAFAF9, Text.SAVE20>>],
     join       |-> [text |-> Text.join, offer |-> Text.first_order,
                     mentions |-> <<>>]]

\* a page that was fetched and parsed
Page(email, popup, structured, mined, copy, zones) ==
    [fetch         |-> "ok",
     message       |-> <<>>,
     email         |-> email,          \* newsletter and signup zones with an offer
     popup         |-> popup,          \* popup and modal zones
     structured    |-> structured,     \* promo of JSON-LD, og:description, meta
     scripts       |-> mined.scripts,  \* captures in the inline scripts
     attrs         |-> mined.attrs,    \* data-coupon and data-code values
     copy          |-> copy,           \* values of the copy buttons
     announcements |-> zones.announcements,
     banners       |-> zones.banners]  \* banner, hero and percent-text zones

\* a page whose fetch raised
Failed(fetch, message) ==
    [fetch |-> fetch, message |-> message, email |-> <<>>, popup |-> <<>>,
     structured |-> <<>>, scripts |-> <<>>, attrs |-> <<>>, copy |-> <<>>,
     announcements |-> <<>>, banners |-> <<>>]

\* what requests.get can bring for a brand; a page that was fetched can
\* make the parse raise (the record of such a page does not depend on its
\* banner zones, and it is taken without them)
Pages ==
    {Failed("timeout", <<>>), Failed("request", Text.not_found)}
    \cup
    {p \in
      {[Page(email, popup, structured, mined, copy, zones) EXCEPT
            !.fetch = fetch,
            !.message = IF fetch = "ok" THEN <<>> ELSE Text.recursion] :
        fetch \in {"ok", "exception"},
        email \in {<<>>, <<Zone.join>>},
        popup \in {<<>>, <<Zone.enter_code>>},
        structured \in {<<>>, Text.sale_today},
        mined \in {[scripts |-> <<>>, attrs |-> <<>>],
                   [scripts |-> <<Text.SALE, Text.FAFAF9>>, attrs |-> <<>>],
                   [scripts |-> <<Text.DEFAULT>>, attrs |-> <<>>],
                   [scripts |-> <<>>, attrs |-> <<Text.SPRING_SALE>>]},
        copy \in {<<>>, <<Text.WELCOMEBACK2024X>>},
        zones \in {[announcements |-> <<>>, banners |-> <<>>],
                   [announcements |-> <<>>, banners |-> <<Zone.sitewide>>],
                   [announcements |-> <<Zone.sitewide>>, banners |-> <<>>],
                   [announcements |-> <<Zone.sitewide>>,
                    banners |-> <<Zone.final_sale>>],
                   [announcements |-> <<>>,
                    banners |-> <<Zone.sitewide, Zone.use_code>>]}} :
      p.fetch = "ok" \/ p.banners = <<>>}

\* lines 1108-1118
NoResult(brand) ==
    [brand |-> brand, promo |-> <<>>, code |-> <<>>, email_offer |-> <<>>,
     error |-> <<>>]

\* result[field] = value `if not result.get(field)`; with the arguments
\* the other way round, `if code: result["code"] = code`
IfNone(old, value) == IF old = <<>> THEN value ELSE old

\* lines 1244, 1246, 1367, 1369, 1414: f"Use code {code}..."
UseCode(code, what) == Text.use_code \o code \o what

\* lines 1131-1205: the offer of the first newsletter zone that has one
EmailStage(r, page) ==
    IF /\ page.email # <<>>
       /\ Len(page.email[1].text) > 10
       /\ 10 < Len(page.email[1].offer) /\ Len(page.email[1].offer) < 100
    THEN [r EXCEPT !.email_offer = clean_text(page.email[1].offer, 80),
                   !.code = IfNone(r.code, extract_code(page.email[1].mentions))]
    ELSE r

\* lines 1210-1253: the code of the first popup zone that has one
PopupStage(r, page) ==
    IF \/ page.popup = <<>>
       \/ r.code # <<>>
       \/ Len(page.popup[1].text) <= 5
       \/ extract_code(page.popup[1].mentions) = <<>>
    THEN r
    ELSE [r EXCEPT
            !.code = extract_code(page.popup[1].mentions),
            !.promo = IfNone(r.promo,
                UseCode(extract_code(page.popup[1].mentions),
                        IF page.popup[1].pct = <<>> THEN Text.for_discount
                        ELSE Text.sep_for \o page.popup[1].pct \o Text.pct_off))]

\* lines 1271-1354
StructuredStage(r, page) ==
    IF page.structured = <<>> THEN r
    ELSE [r EXCEPT !.promo = IfNone(r.promo, clean_text(page.structured, 150))]

\* popup_codes[0] of extract_popup_codes_from_scripts, <<>> for no code:
\* the first token of the scripts that passes, or else the first value of
\* the attributes that passes
extract_popup_codes_from_scripts(page) ==
    IfNone(First(page.scripts,
                 [i \in 1..Len(page.scripts) |-> ScriptGuards(page.scripts[i])]),
           First(page.attrs,
                 [i \in 1..Len(page.attrs) |-> AttrGuards(page.attrs[i])]))

\* lines 1359-1370
ScriptStage(r, page) ==
    IF extract_popup_codes_from_scripts(page) = <<>> \/ r.code # <<>> THEN r
    ELSE [r EXCEPT
            !.code = extract_popup_codes_from_scripts(page),
            !.promo = IfNone(r.promo,
                UseCode(extract_popup_codes_from_scripts(page), Text.for_discount)),
            !.email_offer = IfNone(r.email_offer,
                UseCode(extract_popup_codes_from_scripts(page), Text.for_first_order))]

\* lines 1375-1422: the value of the first copy button that passes
CopyCode(page) ==
    First(page.copy, [i \in 1..Len(page.copy) |-> CopyGuards(page.copy[i])])

CopyStage(r, page) ==
    IF r.code # <<>> \/ CopyCode(page) = <<>> THEN r
    ELSE [r EXCEPT
            !.code = CopyCode(page),
            !.promo = IfNone(r.promo, UseCode(CopyCode(page), Text.for_discount))]

\* lines 1479-1483: the code of the first announcement that has one
AnnouncementStage(r, page) ==
    [r EXCEPT !.code = IfNone(r.code,
        First([i \in 1..Len(page.announcements) |->
                    extract_code(page.announcements[i].mentions)],
              [i \in 1..Len(page.announcements) |->
                    extract_code(page.announcements[i].mentions) # <<>>]))]

\* lines 1447-1519: the candidates in the order they are collected; an
\* announcement has 20 added to its score
Candidates(page) ==
    [i \in 1..Len(page.announcements) |->
        [page.announcements[i] EXCEPT !.score = @ + 20]]
    \o page.banners

\* candidates.sort(key=score, reverse=True)[0]: the first of the highest
\* score (the sort is stable)
Best(candidates) ==
    candidates[CHOOSE i \in 1..Len(candidates) :
        /\ \A j \in 1..Len(candidates) : candidates[j].score <= candidates[i].score
        /\ \A j \in 1..(i - 1) : candidates[j].score < candidates[i].score]

\* lines 1521-1532
BestStage(r, candidates) ==
    IF candidates = <<>> THEN r
    ELSE IF Best(candidates).score > 10
    THEN [r EXCEPT !.promo = clean_text(Best(candidates).text, 150),
                   !.code = IfNone(extract_code(Best(candidates).mentions), r.code)]
    ELSE r

\* lines 1108-1483: the record before the best candidate is looked at (the
\* meta description of lines 1255-1266 finds no offer in the pages of the
\* model)
ExtractionStages(brand, page) ==
    AnnouncementStage(
        CopyStage(
            ScriptStage(
                StructuredStage(
                    PopupStage(EmailStage(NoResult(brand), page), page),
                    page),
                page),
            page),
        page)

\* scrape_brand (the fallback of lines 1534-1549 finds no offer in the pages
\* of the model).  Lines 1551-1556 for a page that raised: the fetch, or
\* the parse at the scan of the text nodes of lines 1513-1520, which no
\* inner try guards (get_text on a deeply nested document), after the
\* stages before it have filled the record.
scrape_brand(brand, page) ==
    IF page.fetch = "timeout"
    THEN [NoResult(brand) EXCEPT !.error = Text.timeout]
    ELSE IF page.fetch = "request"
    THEN [NoResult(brand) EXCEPT !.error = Take(page.message, 50)]
    ELSE IF page.fetch = "exception"
    THEN [ExtractionStages(brand, page) EXCEPT !.error = Take(page.message, 50)]
    ELSE BestStage(ExtractionStages(brand, page), Candidates(page))

\* run_scraper before its first brand
NoScan ==
    [i |-> 1, page |-> <<>>, result |-> <<>>, results |-> <<>>,
     success_count |-> 0, error_count |-> 0]

\* the loop goes on after a brand that failed only when it is the last one
NextBrand_StopsAtError(i, result) ==
    IF result.error # <<>> THEN Len(BRANDS) + 1 ELSE i + 1

\* line 1574: `for i, brand in enumerate(BRANDS, 1)`
NextBrand(i, result) == i + 1

\* every record is kept, the failed ones too
Scanned_KeepsFailed(s, page, result) ==
    [i             |-> NextBrand(s.i, result),
     page          |-> page,
     result        |-> result,
     results       |-> Append(s.results, result),
     success_count |-> IF result.promo # <<>>
                       THEN s.success_count + 1 ELSE s.success_count,
     error_count   |-> IF result.error # <<>>
                       THEN s.error_count + 1 ELSE s.error_count]

\* lines 1575-1588: one turn of the loop, given the page and the result
Scanned(s, page, result) ==
    [i             |-> NextBrand(s.i, result),
     page          |-> page,
     result        |-> result,
     results       |-> IF result.error # <<>> THEN s.results
                       ELSE Append(s.results, result),
     success_count |-> IF result.error = <<>> /\ result.promo # <<>>
                       THEN s.success_count + 1 ELSE s.success_count,
     error_count   |-> IF result.error # <<>>
                       THEN s.error_count + 1 ELSE s.error_count]
----------------------------------------------------------------------------
(* The files and the threads                                                *)

Threads == {"initial", "scheduler", "manual"}

EmptyHistory == <<>>

NoFresh == [promos |-> <<>>, clearance |-> <<>>, impact |-> <<>>]

\* promo_data.json before the first save_data
NoDataFile == [exists |-> FALSE]

\* What a JSON file holds.  "missing": there is no file.  "whole": the
\* document last dumped, complete.  "partial": a document json.load rejects:
\* the file is empty from open(..., "w") until the dump is written, and two
\* writers that had it open together can leave the tail of one document
\* behind the other.  "null": a document json.load accepts that is no
\* key -> entry map (JSON null is the one modelled); the program writes none,
\* it can only be found on disk.
Documents == {"missing", "whole", "partial", "null"}

StartTime == DayNumber(2024, 1, 3) * SECONDS_PER_DAY

\* the start of the process, with deal_history.json as it is found on disk
StartsWith(doc) ==
    /\ clock = StartTime
    /\ historyFile = EmptyHistory
    /\ historyDoc = doc
    /\ dataFile = NoDataFile
    /\ dataDoc = "missing"
    /\ overlap = [t \in Threads |-> FALSE]
    /\ pc = [t \in Threads |-> "idle"]
    /\ batch = [t \in Threads |-> NoBatch]
    /\ hist = [t \in Threads |-> EmptyHistory]
    /\ loaded = [t \in Threads |-> EmptyHistory]
    /\ fresh = [t \in Threads |-> NoFresh]
    /\ chi = [t \in Threads |-> 0]
    /\ cycles = 0

\* no metadata asked for
NoFreshness == [entry |-> <<>>, now |-> StartTime, meta |-> <<>>]

\* no deal probed
NoProbe == [cue |-> <<>>, deal |-> <<>>, now |-> StartTime, out |-> <<>>]

\* the first start: neither file exists
Init ==
    /\ StartsWith("missing")
    /\ freshness = NoFreshness
    /\ scan = NoScan
    /\ probe = NoProbe

\* a start that finds any deal_history.json
StoreInit ==
    /\ \E doc \in Documents : StartsWith(doc)
    /\ freshness = NoFreshness
    /\ scan = NoScan
    /\ probe = NoProbe

\* time passes
Tick ==
    /\ clock < StartTime + MaxTicks * TickSeconds
    /\ clock' = clock + TickSeconds
    /\ UNCHANGED <<aside, files, overlap, pc, batch, hist, loaded, fresh, chi, cycles>>

\* where a thread that ends its cycle goes: the initial scan runs once
Rest(t) == IF t = "initial" THEN "finished" ELSE "idle"

\* save_data line 1863
active_promos(promos) == SelectSeq(promos, LAMBDA p : p.promo # <<>>)

\* load_deal_history: {} unless the file exists and json.load accepts it
load_deal_history == IF historyDoc = "whole" THEN historyFile ELSE EmptyHistory

\* lines 166 and 215: `key in history` and `for key in history` raise
\* TypeError when json.load returned None; nothing between save_data and the
\* top of the thread catches it
UpdateRaises == historyDoc = "null"

\* where a run of run_scraper can start: the scheduler runs its job again and
\* POST /api/refresh starts a new thread after a run that raised
Startable(t) == IF t = "initial" THEN {"idle"} ELSE {"idle", "raised"}

\* One run of run_scraper (the initial scan, the scheduler's interval job or
\* the thread of POST /api/refresh) up to line 1866 of save_data: the scan,
\* `if results:`, and the load of the history.  The scan touches no shared
\* state, so it is taken together with the load that follows it.
RunScraper(t) ==
    /\ pc[t] \in Startable(t)
    /\ cycles < MaxCycles
    /\ cycles' = cycles + 1
    /\ \E b \in Batches :
        IF b.results = <<>>
        THEN /\ pc' = [pc EXCEPT ![t] = Rest(t)]
             /\ UNCHANGED <<batch, hist, loaded>>
        ELSE IF UpdateRaises
        THEN /\ pc' = [pc EXCEPT ![t] = "raised"]
             /\ UNCHANGED <<batch, hist, loaded>>
        ELSE /\ pc' = [pc EXCEPT ![t] = "update_promos"]
             /\ batch' = [batch EXCEPT ![t] = b]
             /\ hist' = [hist EXCEPT ![t] = load_deal_history]
             /\ loaded' = [loaded EXCEPT ![t] = load_deal_history]
    /\ UNCHANGED <<aside, clock, files, overlap, fresh, chi>>

\* the step after the update of `done`: `if clearance:` and `if impact_deals:`
AfterUpdate(b, done) ==
    IF done = "promos" /\ b.clearance # <<>> THEN "update_clearance"
    ELSE IF done \in {"promos", "clearance"} /\ b.impact # <<>> THEN "update_impact"
    ELSE "save_history"

\* history, fresh_x = update_deal_history(...): the assignment of the result
\* r to the locals of thread t
AssignResult(t, list, r) ==
    /\ hist' = [hist EXCEPT ![t] = r.history]
    /\ fresh' = [fresh EXCEPT ![t][list] = r.fresh_deals]

\* save_data line 1869
UpdatePromos(t) ==
    /\ pc[t] = "update_promos"
    /\ AssignResult(t, "promos",
                    update_deal_history(active_promos(batch[t].results), hist[t], clock))
    /\ pc' = [pc EXCEPT ![t] = AfterUpdate(batch[t], "promos")]
    /\ UNCHANGED <<aside, clock, files, overlap, batch, loaded, chi, cycles>>

\* save_data lines 1872-1874
UpdateClearance(t) ==
    /\ pc[t] = "update_clearance"
    /\ AssignResult(t, "clearance", update_deal_history(batch[t].clearance, hist[t], clock))
    /\ pc' = [pc EXCEPT ![t] = AfterUpdate(batch[t], "clearance")]
    /\ UNCHANGED <<aside, clock, files, overlap, batch, loaded, chi, cycles>>

\* save_data lines 1877-1879
UpdateImpact(t) ==
    /\ pc[t] = "update_impact"
    /\ AssignResult(t, "impact", update_deal_history(batch[t].impact, hist[t], clock))
    /\ pc' = [pc EXCEPT ![t] = AfterUpdate(batch[t], "impact")]
    /\ UNCHANGED <<aside, clock, files, overlap, batch, loaded, chi, cycles>>

\* load_data: the defaults unless the file exists and json.load accepts it
DefaultData ==
    [exists |-> FALSE, criticalHitIndex |-> 0, promos |-> <<>>, codes |-> <<>>,
     emailOffers |-> <<>>, clearance |-> <<>>, impactDeals |-> <<>>]

load_data == IF dataDoc = "whole" THEN dataFile ELSE DefaultData

\* load_data()["criticalHitIndex"]
load_data_index == load_data.criticalHitIndex

\* GET /api/promos
get_promos == load_data

\* what a dump leaves in a file: the bytes of a writer that found another
\* writer's document in the file it had truncated replace the head of that
\* document, and its tail stays when it is the longer one
Dumped(t) == IF overlap[t] THEN {"whole", "partial"} ELSE {"whole"}

\* the writers of the file thread t closes, marked as overlapped
Overlapped(t, at) == [u \in Threads |-> u # t /\ (overlap[u] \/ pc[u] = at)]

\* save_deal_history line 75: open(DEAL_HISTORY_FILE, "w") truncates the file
OpenHistory(t) ==
    /\ pc[t] = "save_history"
    /\ historyDoc' = "partial"
    /\ pc' = [pc EXCEPT ![t] = "dump_history"]
    /\ UNCHANGED <<aside, clock, historyFile, dataFile, dataDoc, overlap, batch, hist,
                   loaded, fresh, chi, cycles>>

\* save_deal_history line 76 and the close of the file, then save_data lines
\* 1885-1886: the read of the snapshot's counter (the two touch different
\* files)
SaveHistory(t) ==
    /\ pc[t] = "dump_history"
    /\ historyFile' = hist[t]
    /\ historyDoc' \in Dumped(t)
    /\ overlap' = Overlapped(t, "dump_history")
    /\ chi' = [chi EXCEPT ![t] = load_data_index + 1]
    /\ pc' = [pc EXCEPT ![t] = "write_data"]
    /\ UNCHANGED <<aside, clock, dataFile, dataDoc, batch, hist, loaded, fresh, cycles>>

\* save_data lines 1897-1909
Codes(fresh_promos) ==
    LET withCode == SelectSeq(fresh_promos, LAMBDA p : p.code # <<>>)
    IN  [i \in 1..Len(withCode) |->
            [brand      |-> withCode[i].brand,
             code       |-> withCode[i].code,
             discount   |-> Take(withCode[i].promo, PREVIEW_CHARS),
             is_new     |-> withCode[i].is_new,
             first_seen |-> withCode[i].first_seen,
             expires    |-> withCode[i].expires]]

\* only the records with a promo text have their offer listed
EmailOffers_OfActivePromos(promos) ==
    LET withOffer == SelectSeq(promos, LAMBDA p : p.email_offer # <<>> /\ p.promo # <<>>)
    IN  [i \in 1..Len(withOffer) |->
            [brand |-> withOffer[i].brand, offer |-> withOffer[i].email_offer]]

\* save_data lines 1910-1919
EmailOffers(promos) ==
    LET withOffer == SelectSeq(promos, LAMBDA p : p.email_offer # <<>>)
    IN  [i \in 1..Len(withOffer) |->
            [brand |-> withOffer[i].brand, offer |-> withOffer[i].email_offer]]

\* save_data lines 1893-1922 (lastUpdated, which nothing reads, is left out)
Snapshot(t) ==
    [exists           |-> TRUE,
     criticalHitIndex |-> chi[t],
     promos           |-> fresh[t].promos,
     codes            |-> Codes(fresh[t].promos),
     emailOffers      |-> EmailOffers(batch[t].results),
     clearance        |-> fresh[t].clearance,
     impactDeals      |-> fresh[t].impact]

\* save_data lines 1893-1924: open(DATA_FILE, "w") truncates the file
OpenData(t) ==
    /\ pc[t] = "write_data"
    /\ dataDoc' = "partial"
    /\ pc' = [pc EXCEPT ![t] = "dump_data"]
    /\ UNCHANGED <<aside, clock, historyFile, historyDoc, dataFile, overlap, batch, hist,
                   loaded, fresh, chi, cycles>>

\* save_data line 1925 and the close of the file, and the return of
\* run_scraper
WriteData(t) ==
    /\ pc[t] = "dump_data"
    /\ dataFile' = Snapshot(t)
    /\ dataDoc' \in Dumped(t)
    /\ overlap' = Overlapped(t, "dump_data")
    /\ pc' = [pc EXCEPT ![t] = Rest(t)]
    /\ batch' = [batch EXCEPT ![t] = NoBatch]
    /\ hist' = [hist EXCEPT ![t] = EmptyHistory]
    /\ loaded' = [loaded EXCEPT ![t] = EmptyHistory]
    /\ fresh' = [fresh EXCEPT ![t] = NoFresh]
    /\ chi' = [chi EXCEPT ![t] = 0]
    /\ UNCHANGED <<aside, clock, historyFile, historyDoc, cycles>>

Next ==
    \/ Tick
    \/ \E t \in Threads : RunScraper(t)
    \/ \E t \in Threads : UpdatePromos(t)
    \/ \E t \in Threads : UpdateClearance(t)
    \/ \E t \in Threads : UpdateImpact(t)
    \/ \E t \in Threads : OpenHistory(t)
    \/ \E t \in Threads : SaveHistory(t)
    \/ \E t \in Threads : OpenData(t)
    \/ \E t \in Threads : WriteData(t)

Spec == Init /\ [][Next]_vars

\* The cycles of the scheduler alone: no cycle runs while another does.
\* The calls of one save_data follow one another at once, so the clock,
\* whose step is twelve hours, stands still from the load of the history to
\* the write of the snapshot.
SoloNext ==
    \/ pc["scheduler"] = "idle" /\ Tick
    \/ RunScraper("scheduler")
    \/ UpdatePromos("scheduler")
    \/ UpdateClearance("scheduler")
    \/ UpdateImpact("scheduler")
    \/ OpenHistory("scheduler")
    \/ SaveHistory("scheduler")
    \/ OpenData("scheduler")
    \/ WriteData("scheduler")

SoloSpec == Init /\ [][SoloNext]_vars

\* the same program started on a history store in any condition
StoreSpec == StoreInit /\ [][Next]_vars

----------------------------------------------------------------------------
(* The freshness metadata on its own: lines 186-208 applied to entries of   *)
(* any age and expiry                                                       *)

\* The ages of an entry (now - first_seen) lie around the two thresholds;
\* its expiry is relative to now, and there is none when the offset is None.
FreshnessInit ==
    /\ StartsWith("missing")
    /\ scan = NoScan
    /\ probe = NoProbe
    /\ \E age \in {0, 1, 12 * SECONDS_PER_HOUR,
                    24 * SECONDS_PER_HOUR - 1, 24 * SECONDS_PER_HOUR,
                    24 * SECONDS_PER_HOUR + 1, 3 * SECONDS_PER_DAY,
                    7 * SECONDS_PER_DAY - 1, 7 * SECONDS_PER_DAY,
                    7 * SECONDS_PER_DAY + 1, 30 * SECONDS_PER_DAY},
          offset \in {None, -SECONDS_PER_DAY, -2, 0, 2, SECONDS_PER_DAY} :
          \* history[key] as the upsert leaves it: last_seen is now
          freshness =
            [entry |-> [first_seen |-> StartTime - age,
                        last_seen  |-> StartTime,
                        times_seen |-> IF age = 0 THEN 1 ELSE 2,
                        expires    |-> IF offset = None THEN None
                                       ELSE StartTime + offset],
             now   |-> StartTime,
             meta  |-> <<>>]

\* lines 186-208 for the deal of the entry
DeriveFreshness ==
    /\ freshness.meta = <<>>
    /\ freshness' = [freshness EXCEPT
            !.meta = <<DealWithMeta(Record(Text.ping, Text.golf, <<>>, <<>>),
                                    freshness.entry, freshness.now)>>]
    /\ UNCHANGED <<cycle, scan, probe>>

FreshnessSpec == FreshnessInit /\ [][DeriveFreshness]_vars

----------------------------------------------------------------------------
(* The brand loop of run_scraper on its own, over any pages                 *)

ScanInit ==
    /\ StartsWith("missing")
    /\ freshness = NoFreshness
    /\ scan = NoScan
    /\ probe = NoProbe

\* lines 1574-1588: one turn of the loop
ScanBrand ==
    /\ scan.i <= Len(BRANDS)
    /\ \E page \in Pages :
          scan' = Scanned(scan, page, scrape_brand(BRANDS[scan.i], page))
    /\ UNCHANGED <<cycle, freshness, probe>>

ScanSpec == ScanInit /\ [][ScanBrand]_vars

----------------------------------------------------------------------------
(* update_deal_history on its own: one call on an empty history, for a deal *)
(* with any text, at any time                                               *)

\* the times of the calls: the seven days of a week, days at the ends of a
\* year, and 29 February with days after it; at midnight, at noon and in
\* the last second of the day
ProbeInit ==
    /\ StartsWith("missing")
    /\ freshness = NoFreshness
    /\ scan = NoScan
    /\ \E brand \in {Text.ping, Text.ping \o <<":">> \o Text.golf},
          c \in ProbeCues,
          ymd \in {<<2025, 11, 3>>, <<2025, 11, 4>>, <<2025, 11, 5>>, <<2025, 11, 6>>,
                   <<2025, 11, 7>>, <<2025, 11, 8>>, <<2025, 11, 9>>, <<2025, 1, 1>>,
                   <<2025, 12, 31>>, <<2028, 2, 29>>, <<2028, 3, 1>>, <<2028, 12, 30>>},
          s \in {0, 12 * SECONDS_PER_HOUR, SECONDS_PER_DAY - 1} :
          probe = [cue |-> c, deal |-> Record(brand, ProbeText(c), <<>>, <<>>),
                   now |-> DayNumber(ymd[1], ymd[2], ymd[3]) * SECONDS_PER_DAY + s,
                   out |-> <<>>]

\* update_deal_history([deal], {})
ProbeUpdate ==
    /\ probe.out = <<>>
    /\ probe' = [probe EXCEPT
            !.out = <<update_deal_history(<<probe.deal>>, EmptyHistory, probe.now)>>]
    /\ UNCHANGED <<cycle, freshness, scan>>

ProbeSpec == ProbeInit /\ [][ProbeUpdate]_vars

----------------------------------------------------------------------------
(* Vocabulary of the properties                                             *)

\* thread t is between load_deal_history and save_deal_history
InHistoryUpdate(t) ==
    pc[t] \in {"update_promos", "update_clearance", "update_impact", "save_history",
              "dump_history"}

\* the list the update_deal_history call at pc[t] is given
CallList(t) ==
    IF pc[t] = "update_promos" THEN active_promos(batch[t].results)
    ELSE IF pc[t] = "update_clearance" THEN batch[t].clearance
    ELSE IF pc[t] = "update_impact" THEN batch[t].impact
    ELSE <<>>

\* this step is thread t's update_deal_history call
UpdateStep(t) ==
    /\ pc[t] \in {"update_promos", "update_clearance", "update_impact"}
    /\ pc'[t] # pc[t]

ListKeys(list) == {KeyOf[list[i]] : i \in 1..Len(list)}

Occurrences(key, list) == Cardinality({i \in 1..Len(list) : KeyOf[list[i]] = key})

\* every key the cycle of a batch observes, over its three lists
CycleKeys(b) ==
    ListKeys(active_promos(b.results)) \cup ListKeys(b.clearance) \cup ListKeys(b.impact)

SeqRange(list) == {list[i] : i \in 1..Len(list)}

\* the deals a thread holds for its snapshot, and those of the snapshot file
FreshOf(t) ==
    SeqRange(fresh[t].promos) \cup SeqRange(fresh[t].clearance) \cup SeqRange(fresh[t].impact)

SnapshotDeals ==
    IF dataFile.exists
    THEN SeqRange(dataFile.promos) \cup SeqRange(dataFile.clearance)
            \cup SeqRange(dataFile.impactDeals)
    ELSE {}

----------------------------------------------------------------------------
(* C1: cycles are serialized on the history store: no two threads are at    *)
(* once between loading the deal history and saving it.                     *)
C1_CyclesSerialized ==
    \A t1, t2 \in Threads : t1 # t2 => ~(InHistoryUpdate(t1) /\ InHistoryUpdate(t2))

(* C2: when a cycle has made all its update_deal_history calls, every key   *)
(* it observed has times_seen one above the value loaded, or 1 when the key *)
(* was not in the loaded history, however often the key occurred.           *)
C2_OneUpsertPerKeyPerCycle ==
    \A t \in Threads :
        pc[t] = "save_history" =>
            \A k \in CycleKeys(batch[t]) \cap DOMAIN hist[t] :
                hist[t][k].times_seen =
                    IF k \in DOMAIN loaded[t] THEN loaded[t][k].times_seen + 1 ELSE 1

(* C3: when a cycle has made all its update_deal_history calls, an entry of *)
(* the loaded history is gone only if the cycle did not observe its key and *)
(* more than 24h have passed since its last_seen; an entry whose key the    *)
(* cycle observed is still there with its first_seen, and its times_seen    *)
(* has not gone down.                                                       *)
C3_EvictOnlyUnseenAndOld ==
    \A t \in Threads :
        pc[t] = "save_history" =>
            \A k \in DOMAIN loaded[t] :
                /\ k \notin DOMAIN hist[t] =>
                        /\ k \notin CycleKeys(batch[t])
                        /\ clock - loaded[t][k].last_seen > SECONDS_PER_DAY
                /\ k \in CycleKeys(batch[t]) =>
                        /\ k \in DOMAIN hist[t]
                        /\ hist[t][k].first_seen = loaded[t][k].first_seen
                        /\ hist[t][k].times_seen >= loaded[t][k].times_seen

(* C4: a key whose last_seen lies more than 24h back is purged by the first *)
(* cycle that runs then and does not observe it, and stays out: the first   *)
(* update_deal_history call of a cycle drops every such entry, a cycle that *)
(* ends without results while no other cycle runs leaves none in the        *)
(* history file, and a save adds no key to the file that its cycle did not  *)
(* observe.                                                                 *)
EndsWithoutResults(t) ==
    /\ pc[t] = "idle" /\ cycles' = cycles + 1 /\ pc'[t] = Rest(t)
    /\ \A u \in Threads : pc[u] \in {"idle", "finished"}

SaveStep(t) == pc[t] = "dump_history" /\ pc'[t] = "write_data"

C4_StaleKeyPurgedByNextCycle ==
    [][\A t \in Threads :
            /\ (UpdateStep(t) /\ pc[t] = "update_promos") =>
                    \A k \in DOMAIN hist[t] \ CycleKeys(batch[t]) :
                        clock - hist[t][k].last_seen > SECONDS_PER_DAY => k \notin DOMAIN hist'[t]
            /\ EndsWithoutResults(t) =>
                    \A k \in DOMAIN historyFile :
                        clock - historyFile[k].last_seen > SECONDS_PER_DAY
                            => k \notin DOMAIN historyFile'
            /\ SaveStep(t) =>
                    \A k \in DOMAIN historyFile' \ DOMAIN historyFile :
                        k \in CycleKeys(batch[t])]_vars

(* C5: no deal held for a snapshot or written to the snapshot file was      *)
(* expired when its cycle observed it (its last_seen is the cycle's now):   *)
(* none carries is_expired, none has an expiry before its last_seen, and    *)
(* every entry of codes comes from such a deal of promos.                   *)
NotExpiredWhenSeen(deal) ==
    /\ ~deal.is_expired
    /\ deal.expires = None \/ deal.last_seen <= deal.expires

C5_NoExpiredDealEmitted ==
    /\ \A t \in Threads : \A deal \in FreshOf(t) : NotExpiredWhenSeen(deal)
    /\ \A deal \in SnapshotDeals : NotExpiredWhenSeen(deal)
    /\ dataFile.exists =>
        \A i \in 1..Len(dataFile.codes) :
            \E deal \in SeqRange(dataFile.promos) :
                /\ deal.brand = dataFile.codes[i].brand
                /\ deal.code = dataFile.codes[i].code
                /\ deal.expires = dataFile.codes[i].expires
                /\ NotExpiredWhenSeen(deal)

\* a cycle observed a deal with a code after its expiry, and neither its
\* fresh promos nor its codes hold it
C5_Witness ==
    \E t \in Threads :
        /\ pc[t] = "write_data"
        /\ \E d \in SeqRange(batch[t].results) :
            /\ d.promo # <<>> /\ d.code # <<>>
            /\ KeyOf[d] \in DOMAIN hist[t]
            /\ hist[t][KeyOf[d]].expires # None
            /\ hist[t][KeyOf[d]].last_seen > hist[t][KeyOf[d]].expires
            /\ \A m \in SeqRange(fresh[t].promos) : m.brand # d.brand
            /\ Codes(fresh[t].promos) = <<>>

(* C6: every entry of the history file and of every thread's history dict   *)
(* has last_seen >= first_seen.                                             *)
LastNotBeforeFirst(history) ==
    \A k \in DOMAIN history : history[k].last_seen >= history[k].first_seen

C6_LastSeenNotBeforeFirstSeen ==
    /\ LastNotBeforeFirst(historyFile)
    /\ \A t \in Threads : LastNotBeforeFirst(hist[t])

\* the history file holds an entry seen again after its creation
C6_Witness ==
    \E k \in DOMAIN historyFile :
        /\ historyFile[k].last_seen > historyFile[k].first_seen
        /\ historyFile[k].times_seen > 1

(* C7: from one content of the history file to the next, the times_seen of  *)
(* an entry that is in both never decreases; stated for the saves of a      *)
(* cycle that writes over the very content it loaded, so that no write of   *)
(* another cycle lies between its load and its save.                        *)
C7_TimesSeenNeverDecreases ==
    [][\A t \in Threads :
            (SaveStep(t) /\ loaded[t] = historyFile) =>
                \A k \in DOMAIN historyFile \cap DOMAIN historyFile' :
                    historyFile'[k].times_seen >= historyFile[k].times_seen]_vars

(* C8: an update_deal_history call leaves every key of its list that was    *)
(* already in the history with first_seen unchanged, last_seen = now and    *)
(* times_seen raised by one per upsert (by 1 when the key occurs once).     *)
C8_UpsertExistingKey ==
    [][\A t \in Threads :
            UpdateStep(t) =>
                \A k \in ListKeys(CallList(t)) \cap DOMAIN hist[t] :
                    /\ k \in DOMAIN hist'[t]
                    /\ hist'[t][k].first_seen = hist[t][k].first_seen
                    /\ hist'[t][k].last_seen = clock
                    /\ hist'[t][k].times_seen =
                            hist[t][k].times_seen + Occurrences(k, CallList(t))]_vars

\* created at T0, seen again later by one upsert: first_seen = T0,
\* last_seen = now, times_seen = 2
C8_Witness ==
    \E t \in Threads :
        /\ pc[t] = "save_history"
        /\ \E k \in DOMAIN loaded[t] \cap DOMAIN hist[t] :
            /\ loaded[t][k].times_seen = 1
            /\ loaded[t][k].last_seen = loaded[t][k].first_seen
            /\ hist[t][k].first_seen = loaded[t][k].first_seen
            /\ hist[t][k].last_seen = clock
            /\ hist[t][k].last_seen > hist[t][k].first_seen
            /\ hist[t][k].times_seen = 2

(* C9: an update_deal_history call gives every key of its list that was not *)
(* in the history an entry with first_seen = last_seen = now, and with      *)
(* times_seen = 1 when the key occurs once in the list; every deal the call *)
(* emits for such a key has is_new = TRUE.                                  *)
FreshOfCall(t) ==
    IF pc[t] = "update_promos" THEN fresh'[t].promos
    ELSE IF pc[t] = "update_clearance" THEN fresh'[t].clearance
    ELSE fresh'[t].impact

C9_UpsertNewKey ==
    [][\A t \in Threads :
            UpdateStep(t) =>
                \A k \in ListKeys(CallList(t)) \ DOMAIN hist[t] :
                    /\ k \in DOMAIN hist'[t]
                    /\ hist'[t][k].first_seen = clock
                    /\ hist'[t][k].last_seen = clock
                    /\ Occurrences(k, CallList(t)) = 1 => hist'[t][k].times_seen = 1
                    /\ \A m \in SeqRange(FreshOfCall(t)) :
                            KeyOf[Record(m.brand, m.promo, m.code, m.email_offer)] = k
                                => m.is_new]_vars

\* a thread has just created an entry and holds the deal emitted for it
C9_Witness ==
    \E t \in Threads :
        /\ pc[t] = "save_history"
        /\ \E m \in SeqRange(fresh[t].promos) :
            LET k == KeyOf[Record(m.brand, m.promo, m.code, m.email_offer)]
            IN  /\ k \notin DOMAIN loaded[t]
                /\ hist[t][k].times_seen = 1
                /\ hist[t][k].first_seen = hist[t][k].last_seen
                /\ m.is_new /\ m.times_seen = 1

(* C10, as claimed: expiration inference runs at most once per key, so the  *)
(* expires of an entry is what its creation stored: the first upsert that a *)
(* later cycle makes of an entry it loaded leaves its expires as loaded.    *)
C10_InferredOnlyAtCreation ==
    [][\A t \in Threads :
            UpdateStep(t) =>
                \A k \in DOMAIN loaded[t] \cap DOMAIN hist[t] \cap DOMAIN hist'[t] :
                    hist[t][k] = loaded[t][k] =>
                        hist'[t][k].expires = loaded[t][k].expires]_vars

(* C10, amended: an upsert runs the inference whenever the entry holds no   *)
(* expiry (also on an entry of an earlier cycle), and never when it holds   *)
(* one: no update_deal_history call changes a non-null expires, and a call  *)
(* whose list names once a key whose entry has none stores what             *)
(* parse_expiration_date gives for the text at the call's now.              *)
C10_NonNullExpiryKept ==
    [][\A t \in Threads :
            UpdateStep(t) =>
                /\ \A k \in DOMAIN hist[t] \cap DOMAIN hist'[t] :
                        hist[t][k].expires # None =>
                            hist'[t][k].expires = hist[t][k].expires
                /\ \A i \in 1..Len(CallList(t)) :
                        LET k == KeyOf[CallList(t)[i]]
                        IN  (/\ k \in DOMAIN hist[t]
                             /\ hist[t][k].expires = None
                             /\ Occurrences(k, CallList(t)) = 1)
                            => hist'[t][k].expires =
                                   parse_expiration_date(CallList(t)[i].promo, clock)]_vars

\* a later cycle has upserted, on another day, an entry inferred from
\* "ends today", and the stored expiry is the one of the first day
C10_Witness ==
    \E t \in Threads :
        /\ pc[t] = "save_history"
        /\ \E k \in DOMAIN loaded[t] \cap DOMAIN hist[t] :
            /\ loaded[t][k].expires # None
            /\ hist[t][k].times_seen > loaded[t][k].times_seen
            /\ hist[t][k].expires = loaded[t][k].expires
            /\ hist[t][k].expires < hist[t][k].last_seen

WriteStep(t) == pc[t] = "dump_data" /\ pc'[t] # "dump_data"

(* C14: every snapshot written carries a criticalHitIndex strictly greater  *)
(* than the one of the snapshot it replaces.                                *)
C14_CounterStrictlyIncreases ==
    [][\A t \in Threads :
            (WriteStep(t) /\ dataFile.exists) =>
                dataFile'.criticalHitIndex > dataFile.criticalHitIndex]_vars

\* this step ends a cycle of thread t
CycleEnds(t) == EndsWithoutResults(t) \/ WriteStep(t)

(* C15: every cycle that runs to completion has written one snapshot: the   *)
(* step that ends a cycle is the write of the snapshot file, whatever the   *)
(* brands gave.                                                             *)
C15_EveryCycleWritesSnapshot ==
    [][\A t \in Threads :
            CycleEnds(t) => (WriteStep(t) /\ dataFile' = Snapshot(t))]_vars

(* C12: whatever deal_history.json holds when a cycle loads it (nothing,   *)
(* a document that does not parse, or one that parses but is no            *)
(* key -> entry map), the cycle goes on with an empty history: no run of    *)
(* run_scraper ends in an exception.                                        *)
C12_CorruptStoreDegradesToEmpty ==
    \A t \in Threads : pc[t] # "raised"

(* C13: once a snapshot has been written, GET /api/promos returns at every  *)
(* instant the complete snapshot last written: the previous one until the   *)
(* new one is in place, never an empty or partial document.                 *)
C13_ReaderSeesWholeSnapshot ==
    dataFile.exists => get_promos = dataFile

\* the records of a cycle that carry a promo text, over its three lists
CycleRecords(b) ==
    SeqRange(active_promos(b.results)) \cup SeqRange(b.clearance) \cup SeqRange(b.impact)

\* the part of a promo text that the key keeps
NormalizedPrefix(promo) == Take(CollapseWs(Strip(Lower(promo))), KEY_PROMO_CHARS)

\* NormalizedPrefix of every record of the model, computed once
PrefixOf == [r \in AllRecords |-> NormalizedPrefix(r.promo)]

(* C18, as claimed: two records of one brand with two different promo texts *)
(* in one cycle have two distinct keys.                                     *)
C18_DifferentTextsDistinctKeys ==
    \A t \in Threads :
        \A r1, r2 \in CycleRecords(batch[t]) :
            (r1.brand = r2.brand /\ r1.promo # r2.promo) => KeyOf[r1] # KeyOf[r2]

(* C18, amended: two records of one brand whose promo texts differ in their *)
(* lowercased, stripped, whitespace-collapsed first 100 characters have two *)
(* distinct keys; an update_deal_history call leaves an entry under every   *)
(* key of its list, and leaves every entry whose key is not in its list as  *)
(* it is, or removes it.                                                    *)
C18_DistinctPrefixesIndependentEntries ==
    [][\A t \in Threads :
            /\ \A r1, r2 \in CycleRecords(batch[t]) :
                    (/\ r1.brand = r2.brand
                     /\ PrefixOf[r1] # PrefixOf[r2]) =>
                        KeyOf[r1] # KeyOf[r2]
            /\ UpdateStep(t) =>
                    /\ ListKeys(CallList(t)) \subseteq DOMAIN hist'[t]
                    /\ \A k \in (DOMAIN hist[t] \cap DOMAIN hist'[t]) \ ListKeys(CallList(t)) :
                            hist'[t][k] = hist[t][k]]_vars

\* a cycle has observed two texts of one brand, one known from an earlier
\* cycle and one new: two entries with their own first_seen, times_seen and
\* expires
C18_Witness ==
    \E t \in Threads :
        /\ pc[t] = "save_history"
        /\ \E r1, r2 \in CycleRecords(batch[t]) :
            /\ r1.brand = r2.brand
            /\ KeyOf[r1] # KeyOf[r2]
            /\ {KeyOf[r1], KeyOf[r2]} \subseteq DOMAIN hist[t]
            /\ hist[t][KeyOf[r1]].first_seen < hist[t][KeyOf[r2]].first_seen
            /\ hist[t][KeyOf[r1]].times_seen = 2
            /\ hist[t][KeyOf[r2]].times_seen = 1
            /\ hist[t][KeyOf[r1]].expires # None
            /\ hist[t][KeyOf[r2]].expires = None

(* C17: the flags of a deal follow from its entry and the now of the call: *)
(* is_new iff the entry was first seen less than 24 hours (86400 s) ago,    *)
(* is_stale iff more than 7 days (604800 s) ago, is_expired iff an expiry   *)
(* is stored and now is after it.                                           *)
C17_FreshnessFlags ==
    \A i \in 1..Len(freshness.meta) :
        /\ freshness.meta[i].is_new
                <=> freshness.now - freshness.entry.first_seen < 86400
        /\ freshness.meta[i].is_stale
                <=> freshness.now - freshness.entry.first_seen > 604800
        /\ freshness.meta[i].is_expired
                <=> (/\ freshness.entry.expires # None
                     /\ freshness.now > freshness.entry.expires)

\* an entry first seen exactly seven days ago, with no expiry: neither new
\* nor stale nor expired
C17_Witness ==
    /\ Len(freshness.meta) = 1
    /\ freshness.now - freshness.entry.first_seen = 604800
    /\ freshness.entry.expires = None
    /\ ~freshness.meta[1].is_new
    /\ ~freshness.meta[1].is_stale
    /\ ~freshness.meta[1].is_expired

(* C16: a brand whose fetch or parse raises gets the error in its record,   *)
(* and the loop goes on with the next brand of the list whatever the        *)
(* outcome, so every later brand is scanned in the same cycle.              *)
C16_BrandFailureIsolated ==
    [][scan'.i # scan.i =>
            /\ scan'.i = scan.i + 1
            /\ scan'.result.brand = BRANDS[scan.i]
            /\ scan'.page.fetch # "ok" =>
                    /\ scan'.result.error # <<>>
                    /\ scan'.error_count = scan.error_count + 1]_vars

\* the first brand failed and the last one was scanned after it
C16_Witness ==
    /\ scan.i = Len(BRANDS) + 1
    /\ scan.error_count = 1
    /\ scan.page.fetch = "ok"
    /\ scan.result.brand = BRANDS[Len(BRANDS)]
    /\ scan.results = <<scan.result>>

(* C19: the promo of a brand's record is the cleaned text of its            *)
(* highest-scoring candidate when that one scores above 10, and null when   *)
(* no candidate does or there is none.                                      *)
C19_PromoOnlyFromCandidateAboveTen ==
    (scan.i > 1 /\ scan.page.fetch = "ok") =>
        IF \E i \in 1..Len(Candidates(scan.page)) :
                Candidates(scan.page)[i].score > 10
        THEN scan.result.promo = clean_text(Best(Candidates(scan.page)).text, 150)
        ELSE scan.result.promo = <<>>

(* C20: the code of a brand's record, whichever stage found it, has 4 to 15 *)
(* characters, is not on the stoplist of extract_code and is not a          *)
(* 6-character hexadecimal token.                                           *)
C20_StoredCodePassesGuards ==
    (scan.i > 1 /\ scan.result.code # <<>>) =>
        /\ Len(scan.result.code) >= 4
        /\ Len(scan.result.code) <= 15
        /\ scan.result.code \notin CodeBlacklist
        /\ ~(Len(scan.result.code) = 6 /\ AllIn(scan.result.code, HexChars))

\* the entry a probed deal has in the history, and its date by the numbers
ProbeEntry == probe.out[1].history[KeyOf[probe.deal]]

\* the last second of month/day of a year
ProbeDate(year) == EndOfDay(DayNumber(year, probe.cue.month, probe.cue.day))

\* the year a date cue names: its own (two digits count from 2000), else
\* the year of now
ProbeYear ==
    IF probe.cue.year = None THEN YearOf(probe.now)
    ELSE IF probe.cue.year < 100 THEN probe.cue.year + 2000 ELSE probe.cue.year

\* the date of the cue is past and its month is before the month of now
ProbeRolls ==
    ProbeDate(ProbeYear) < probe.now /\ probe.cue.month < MonthOf(probe.now)

(* C22: a text whose date after the keyword cannot be turned into a date    *)
(* (no such month or day in its year, or none in the next year when the     *)
(* date rolls over) makes update_deal_history store no expiry, or the one   *)
(* of a later rule of the text ('today only': the end of today), and the    *)
(* call goes on: the entry is stored and the deal is emitted.               *)
C22_UnparsableDateYieldsNoExpiry ==
    (/\ probe.out # <<>>
     /\ probe.cue.kind = "date"
     /\ \/ ~ValidDate(ProbeYear, probe.cue.month, probe.cue.day)
        \/ ProbeRolls /\ ~ValidDate(ProbeYear + 1, probe.cue.month, probe.cue.day))
    => /\ KeyOf[probe.deal] \in DOMAIN probe.out[1].history
       /\ ProbeEntry.expires = IF probe.cue.tail = <<>> THEN None
                               ELSE EndOfDay(DayOf(probe.now))
       /\ Len(probe.out[1].fresh_deals) = 1
       /\ probe.out[1].fresh_deals[1].expires = ProbeEntry.expires

\* 'Sale ends 13/45 - today only' got the end of today
C22_Witness ==
    /\ probe.out # <<>>
    /\ probe.cue.kind = "date"
    /\ probe.cue.month = 13
    /\ probe.cue.day = 45
    /\ probe.cue.tail # <<>>
    /\ ProbeEntry.expires = EndOfDay(DayOf(probe.now))
    /\ Len(probe.out[1].fresh_deals) = 1

(* C23: for a text with 'ends <weekday>' (or through, until) and no date,   *)
(* the expiry is 23:59:59 on the one day among the next seven, today not    *)
(* counted, that is this weekday: seven days ahead when today is that       *)
(* weekday.                                                                 *)
C23_NextWeekdayStrictlyAfterToday ==
    (probe.out # <<>> /\ probe.cue.kind = "weekday") =>
        \E k \in 1..7 :
            /\ ProbeEntry.expires = EndOfDay(DayOf(probe.now) + k)
            /\ Weekday(ProbeEntry.expires) = probe.cue.weekday
            /\ (Weekday(probe.now) = probe.cue.weekday <=> k = 7)

\* on a Wednesday 'ends sunday' gave the Sunday four days later
C23_Witness ==
    /\ probe.out # <<>>
    /\ probe.cue.kind = "weekday"
    /\ Weekday(probe.now) = 2
    /\ probe.cue.weekday = 6
    /\ ProbeEntry.expires = EndOfDay(DayOf(probe.now) + 4)

(* C24 as stated: for a month/day without a year that exists in the current *)
(* year, the expiry is 23:59:59 on that date of the current year, or of the *)
(* next year exactly when the date is past and its month is before the      *)
(* current month.                                                           *)
C24_DateRolledToNextYear ==
    (/\ probe.out # <<>>
     /\ probe.cue.kind = "date"
     /\ probe.cue.year = None
     /\ ValidDate(ProbeYear, probe.cue.month, probe.cue.day))
    => ProbeEntry.expires =
            IF ProbeRolls THEN ProbeDate(ProbeYear + 1) ELSE ProbeDate(ProbeYear)

(* C24, amended: the same, when the date also exists in the year it is      *)
(* rolled to; a 29 February that is rolled to a year without one gives no   *)
(* expiry by this rule.                                                     *)
C24_DateRolledWhenItExists ==
    (/\ probe.out # <<>>
     /\ probe.cue.kind = "date"
     /\ probe.cue.year = None
     /\ ValidDate(ProbeYear, probe.cue.month, probe.cue.day))
    => IF ~ProbeRolls THEN ProbeEntry.expires = ProbeDate(ProbeYear)
       ELSE IF ValidDate(ProbeYear + 1, probe.cue.month, probe.cue.day)
       THEN ProbeEntry.expires = ProbeDate(ProbeYear + 1)
       ELSE ProbeEntry.expires = IF probe.cue.tail = <<>> THEN None
                                 ELSE EndOfDay(DayOf(probe.now))

\* in November 'ends 1/6' got 6 January of the next year, and 'ends 11/1',
\* past as well, would not have
C24_Witness ==
    /\ probe.out # <<>>
    /\ probe.cue.kind = "date"
    /\ probe.cue.year = None
    /\ probe.cue.month = 1
    /\ probe.cue.day = 6
    /\ MonthOf(probe.now) = 11
    /\ ProbeEntry.expires = ProbeDate(YearOf(probe.now) + 1)

C30_KeyInjectiveOnBrandAndPromo ==
    probe.out # <<>> =>
        \A d \in ProbeDeals :
            KeyOf[d] = KeyOf[probe.deal] =>
                /\ Strip(Lower(d.brand)) = Strip(Lower(probe.deal.brand))
                /\ Take(CollapseWs(Strip(Lower(d.promo))), KEY_PROMO_CHARS)
                     = Take(CollapseWs(Strip(Lower(probe.deal.promo))), KEY_PROMO_CHARS)

(* C21: once a stage of scrape_brand has put a code into the record, the    *)
(* record keeps it: the code of the record that scrape_brand returns is the *)
(* code the stages before the choice of the best candidate left, when they  *)
(* left one.                                                                *)
C21_FirstAcceptedCodeKept ==
    (/\ scan.i > 1
     /\ scan.page.fetch = "ok"
     /\ ExtractionStages(scan.result.brand, scan.page).code # <<>>)
    => scan.result.code = ExtractionStages(scan.result.brand, scan.page).code

(* C25: the candidate chosen for a brand has the highest score_promo_text   *)
(* of all the candidates of its page, whatever their zones.                 *)
C25_SelectedHasHighestTextScore ==
    (scan.i > 1 /\ scan.page.fetch = "ok" /\ Candidates(scan.page) # <<>>) =>
        \E i \in 1..Len(Candidates(scan.page)) :
            /\ Candidates(scan.page)[i] = Best(Candidates(scan.page))
            /\ \A j \in 1..Len(Candidates(scan.page)) :
                    (scan.page.announcements \o scan.page.banners)[j].score
                        <= (scan.page.announcements \o scan.page.banners)[i].score

(* C29: the record of a brand whose scrape ended with an error is not added *)
(* to results, whatever was extracted before the error, and is not counted  *)
(* as a success; so results, which is all that save_data is given, holds    *)
(* no record with an error.                                                 *)
C29_FailedRecordNotInBatch ==
    [][scan'.i # scan.i =>
            /\ scan'.result.error # <<>> =>
                    /\ scan'.results = scan.results
                    /\ scan'.success_count = scan.success_count
            /\ \A i \in 1..Len(scan'.results) : scan'.results[i].error = <<>>]_vars

\* the parse of the first brand raised after a promo, a code and an email
\* offer were extracted: nothing was added to results
C29_Witness ==
    /\ scan.i = 2
    /\ scan.result.error # <<>>
    /\ scan.result.promo # <<>>
    /\ scan.result.code # <<>>
    /\ scan.result.email_offer # <<>>
    /\ scan.results = <<>>
    /\ scan.success_count = 0

(* C27: when a cycle that ran alone has written its snapshot, every deal of *)
(* the snapshot's promos, clearance and impactDeals has an entry under its  *)
(* key in the history file, with the first_seen the deal was emitted with.  *)
C27_EmittedDealHasHistoryEntry ==
    (dataFile.exists /\ pc["scheduler"] = "idle") =>
        \A d \in SnapshotDeals :
            /\ KeyOf[Record(d.brand, d.promo, d.code, d.email_offer)]
                    \in DOMAIN historyFile
            /\ historyFile[KeyOf[Record(d.brand, d.promo, d.code, d.email_offer)]].first_seen
                    = d.first_seen

\* a second cycle wrote a snapshot with a deal first seen by the cycle
\* before it
C27_Witness ==
    /\ dataFile.exists
    /\ pc["scheduler"] = "idle"
    /\ dataFile.criticalHitIndex = 2
    /\ \E d \in SnapshotDeals : d.first_seen < d.last_seen

(* C28: the emailOffers of a snapshot hold one entry, in the order of the   *)
(* batch, for every record of the cycle's results that has an email_offer,  *)
(* with or without a promo text and whether or not its deal is expired.     *)
C28_EmailOfferForEveryRecord ==
    [][\A t \in Threads :
        WriteStep(t) =>
            LET with == {i \in 1..Len(batch[t].results) :
                            batch[t].results[i].email_offer # <<>>}
            IN  /\ Len(dataFile'.emailOffers) = Cardinality(with)
                /\ \A i \in with :
                     \E j \in 1..Len(dataFile'.emailOffers) :
                        /\ j = Cardinality({k \in with : k <= i})
                        /\ dataFile'.emailOffers[j].brand = batch[t].results[i].brand
                        /\ dataFile'.emailOffers[j].offer
                                = batch[t].results[i].email_offer]_vars

\* a snapshot lists the offers of a record without promo text and of a
\* record whose deal is expired and left out of promos
C28_Witness ==
    /\ dataFile.exists
    /\ dataFile.promos = <<>>
    /\ Len(dataFile.emailOffers) = 2
    /\ dataFile.emailOffers[1].brand = Text.ping
    /\ dataFile.emailOffers[2].brand = Text.ecco

====
